---- MODULE Spec2Model ----
(***************************************************************************)
(* Focus Flow (BuddyBlocks): the local decomposition engine                *)
(* utils/mock_ai.py:parse_journal_mock, the client fallback                *)
(* utils/snowflake_client.py:SnowflakeClient.parse_journal, and the        *)
(* Streamlit script app.py (journal action, task cards, focus-session      *)
(* timer), modelled as a state machine over st.session_state.              *)
(*                                                                         *)
(* Text is a sequence of one-character strings.  Wall-clock time and the   *)
(* timer fields are whole seconds.  Priority scores are kept exactly, in   *)
(* units of 1/900 before rounding and in tenths after rounding.            *)
(***************************************************************************)
EXTENDS Integers, Sequences, FiniteSets, TLC

VARIABLES
    (* ---- one call of the decomposition engine or of the client ---- *)
    journal_text,        \* the argument of the call
    seed,                \* state of the process-wide random source at the call
    cortex,              \* what the Cortex query of the call comes back with
    mock_pc,             \* "call" before the call, "done" after it returned
    mock_result,         \* the returned list of task dictionaries
    (* ---- one call of the coach, direct or through the client ---- *)
    message_type,        \* the message_type argument
    coach_context,       \* the context argument
    coach_result,        \* whether the call raised, and the returned message
    (* ---- the latest database operation of the client ---- *)
    db_call,             \* the operation, whether it raised, the SQL it issued
    (* ---- the client and st.session_state ---- *)
    is_connected,        \* client.is_connected
    session,             \* client.session: "None" or "open"
    tasks,               \* st.session_state.tasks
    current_task,        \* st.session_state.current_task: 0 is None, else index in tasks
    timer_running,       \* st.session_state.timer_running
    time_remaining,      \* st.session_state.time_remaining (seconds)
    session_start,       \* st.session_state.session_start: <<>> is None, else <<t>>
    completed_sessions,  \* st.session_state.completed_sessions
    total_focus_time,    \* st.session_state.total_focus_time (minutes)
    now,                 \* time.time(), the wall clock
    (* ---- what the latest script run showed and did ---- *)
    journal_outcome,     \* how "Break it Down" ended in the run
    warned,              \* parse_journal emitted the mock-AI warning in the run
    engine,              \* the engine that produced the parse_journal result
    ai_source_shown,     \* the source named by the "tasks created using" message
    last_save,           \* how client.save_task ended in the run
    (* ---- history of the current focus session ---- *)
    run_elapsed,         \* seconds of wall clock passed while timer_running
    expired              \* a re-evaluation has observed remaining <= 0

coachVars == <<message_type, coach_context, coach_result>>
mockVars == <<journal_text, seed, cortex, mock_pc, mock_result, coachVars, db_call>>
clientVars == <<is_connected, session>>
timerVars == <<current_task, timer_running, time_remaining, session_start>>
statVars == <<completed_sessions, total_focus_time>>
shownVars == <<journal_outcome, warned, engine, ai_source_shown, last_save>>
historyVars == <<run_elapsed, expired>>
vars == <<journal_text, seed, cortex, mock_pc, mock_result,
          message_type, coach_context, coach_result, db_call,
          is_connected, session, tasks, current_task, timer_running,
          time_remaining, session_start, completed_sessions,
          total_focus_time, now, journal_outcome, warned, engine,
          ai_source_shown, last_save, run_elapsed, expired>>

(***************************************************************************)
(* Bounds of the model                                                     *)
(***************************************************************************)
MaxUnits == 6     \* a generated journal is at most this many text units
MaxSeed == 11     \* states of the random source at a direct call are 0..MaxSeed
MaxAppSeed == 1   \* states of the random source at a call from the app are 0..MaxAppSeed
MaxTasks == 2     \* the journal action is taken while the list stays this short
MaxNow == 1830    \* the wall clock stops advancing here (seconds)

Min(a, b) == IF a <= b THEN a ELSE b
MaxSecond(a, b) == b
Max(a, b) == IF a >= b THEN a ELSE b

(***************************************************************************)
(* Characters and strings                                                  *)
(***************************************************************************)
lowerLetters == <<"a","b","c","d","e","f","g","h","i","j","k","l","m","n","o","p","q","r","s","t","u","v","w","x","y","z">>
upperLetters == <<"A","B","C","D","E","F","G","H","I","J","K","L","M","N","O","P","Q","R","S","T","U","V","W","X","Y","Z">>

lowerOf == [c \in {upperLetters[i] : i \in 1..26} |->
               lowerLetters[CHOOSE i \in 1..26 : upperLetters[i] = c]]
upperOf == [c \in {lowerLetters[i] : i \in 1..26} |->
               upperLetters[CHOOSE i \in 1..26 : lowerLetters[i] = c]]

\* str.lower() of one character
LowerChar(c) == IF c \in DOMAIN lowerOf THEN lowerOf[c] ELSE c

\* str.upper() of one character
UpperChar(c) == IF c \in DOMAIN upperOf THEN upperOf[c] ELSE c

Lower(s) == [i \in 1..Len(s) |-> LowerChar(s[i])]

\* the character class [.!?\n] of the split pattern
IsDelim(c) == c \in {".", "!", "?", "\n"}

\* whitespace as str.strip(), str.split() and \s see it
IsSpace(c) == c \in {" ", "\t", "\n"}

RECURSIVE LStrip(_)
LStrip(s) ==
    IF s = <<>> THEN <<>>
    ELSE IF IsSpace(Head(s)) THEN LStrip(Tail(s)) ELSE s

RECURSIVE RStrip(_)
RStrip(s) ==
    IF s = <<>> THEN <<>>
    ELSE IF IsSpace(s[Len(s)]) THEN RStrip(SubSeq(s, 1, Len(s) - 1)) ELSE s

\* str.strip()
Strip(s) == RStrip(LStrip(s))

\* s[:n], a Python slice: never past the end
Take(s, n) == SubSeq(s, 1, Min(n, Len(s)))

\* s[n:]
Drop(s, n) == SubSeq(s, Min(n, Len(s)) + 1, Len(s))

StartsWith(s, p) == Len(s) >= Len(p) /\ SubSeq(s, 1, Len(p)) = p

EndsWith(s, p) == Len(s) >= Len(p) /\ SubSeq(s, Len(s) - Len(p) + 1, Len(s)) = p

\* the first index from i on that holds a delimiter, Len(text) + 1 if none
RECURSIVE PieceEnd(_, _)
PieceEnd(text, i) ==
    IF i > Len(text) \/ IsDelim(text[i]) THEN i ELSE PieceEnd(text, i + 1)

\* the first index from i on that holds no delimiter, Len(text) + 1 if none
RECURSIVE DelimEnd(_, _)
DelimEnd(text, i) ==
    IF i > Len(text) \/ ~IsDelim(text[i]) THEN i ELSE DelimEnd(text, i + 1)

\* re.split(r'[.!?\n]+', text): the pieces between maximal runs of delimiters,
\* empty first and last pieces included
RECURSIVE ReSplitFrom(_, _)
ReSplitFrom(text, i) ==
    LET e == PieceEnd(text, i)
    IN  IF e > Len(text) THEN <<SubSeq(text, i, Len(text))>>
        ELSE <<SubSeq(text, i, e - 1)>> \o ReSplitFrom(text, DelimEnd(text, e))

ReSplit(text) == ReSplitFrom(text, 1)

\* str.split(): the maximal runs of non-whitespace
RECURSIVE SplitWordsFrom(_, _, _)
SplitWordsFrom(s, i, word) ==
    IF i > Len(s) THEN (IF word = <<>> THEN <<>> ELSE <<word>>)
    ELSE IF IsSpace(s[i])
         THEN (IF word = <<>> THEN <<>> ELSE <<word>>) \o SplitWordsFrom(s, i + 1, <<>>)
         ELSE SplitWordsFrom(s, i + 1, Append(word, s[i]))

SplitWords(s) == SplitWordsFrom(s, 1, <<>>)

\* ' '.join(words)
RECURSIVE JoinWords(_)
JoinWords(words) ==
    IF words = <<>> THEN <<>>
    ELSE IF Len(words) = 1 THEN words[1]
    ELSE words[1] \o <<" ">> \o JoinWords(Tail(words))

(***************************************************************************)
(* The process-wide random source.  `random` is a deterministic generator  *)
(* whose stream is fixed by its state at the call; the state is drawn from *)
(* 0..MaxSeed.  rng is the stream of a call and rng[j + 1] feeds its j-th  *)
(* draw.                                                                   *)
(***************************************************************************)
RECURSIVE RngStreamFrom(_, _)
RngStreamFrom(s, n) ==
    IF n = 0 THEN <<>> ELSE <<s>> \o RngStreamFrom((s * 37 + 11) % 251, n - 1)

\* the stream of a call over n sentences: randint(3, 5), then at most
\* 3 + 9 + 1 draws per task
RngStream(s, n) == RngStreamFrom(s, 1 + n * (3 + 9 + 1))

\* random._randbelow(n): a value in 0..n-1
RandBelow(n, rng, j) == rng[j + 1] % n

\* random.randint(a, b): a value in a..b
RandInt(a, b, rng, j) == a + RandBelow(b - a + 1, rng, j)

\* random.choice(seq)
RandChoice(seq, rng, j) == seq[1 + RandBelow(Len(seq), rng, j)]

\* random.uniform(40, 80) in units of 1/900: 36000..72000, both ends possible
RandUniform4080(rng, j) == 36000 + 144 * (rng[j + 1] % 251)

Swap(x, p, q) == [x EXCEPT ![p] = x[q], ![q] = x[p]]

\* random.shuffle(x): for i from len-1 down to 1, swap x[i] with x[randbelow(i+1)]
RECURSIVE ShuffleFrom(_, _, _, _)
ShuffleFrom(x, p, rng, j) ==
    IF p < 2 THEN x
    ELSE ShuffleFrom(Swap(x, p, 1 + RandBelow(p, rng, j)), p - 1, rng, j + 1)

Shuffle(x, rng, j) == ShuffleFrom(x, Len(x), rng, j)

(***************************************************************************)
(* parse_journal_mock                                                      *)
(***************************************************************************)

\* line 51: a stripped piece is kept when it is non-empty and longer than 10
KeepAnyLength(p) == Strip(p) # <<>>
KeepSentence(p) == Strip(p) # <<>> /\ Len(Strip(p)) > 10

RECURSIVE StripKept(_)
StripKept(pieces) ==
    IF pieces = <<>> THEN <<>>
    ELSE IF KeepSentence(Head(pieces))
         THEN <<Strip(Head(pieces))>> \o StripKept(Tail(pieces))
         ELSE StripKept(Tail(pieces))

\* lines 48-51: the sentences of a journal text
Sentences(text) == StripKept(ReSplit(text))

\* line 57: num_tasks, r being the outcome of random.randint(3, 5)
NumTasksMax(n, r) == Max(n, r)
NumTasks(n, r) == Min(n, r)

\* line 80: the alternatives of the title pattern, in order
FillerPhrases == <<
    <<"I"," ","n","e","e","d"," ","t","o">>,
    <<"I"," ","h","a","v","e"," ","t","o">>,
    <<"I"," ","m","u","s","t">>,
    <<"I"," ","s","h","o","u","l","d">>,
    <<"I"," ","w","i","l","l">>,
    <<"I"," ","w","a","n","t"," ","t","o">>,
    <<"I"," ","a","m"," ","g","o","i","n","g"," ","t","o">>,
    <<"I"," ","p","l","a","n"," ","t","o">> >>

RECURSIVE SpaceRun(_, _)
SpaceRun(s, i) == IF i <= Len(s) /\ IsSpace(s[i]) THEN 1 + SpaceRun(s, i + 1) ELSE 0

\* the alternative matches at the start, ignoring case, followed by \s+
FillerMatches(title, f) ==
    /\ Len(title) > Len(f)
    /\ \A i \in 1..Len(f) : LowerChar(title[i]) = LowerChar(f[i])
    /\ IsSpace(title[Len(f) + 1])

\* lines 79-84: re.sub of the leading filler phrase and the whitespace after it
StripFiller(title) ==
    IF \E i \in 1..Len(FillerPhrases) : FillerMatches(title, FillerPhrases[i])
    THEN LET i == CHOOSE k \in 1..Len(FillerPhrases) :
                      /\ FillerMatches(title, FillerPhrases[k])
                      /\ \A m \in 1..(k - 1) : ~FillerMatches(title, FillerPhrases[m])
             f == FillerPhrases[i]
         IN  Drop(title, Len(f) + SpaceRun(title, Len(f) + 1))
    ELSE title

\* lines 87-88: upper-case the first character
Capitalize(title) ==
    IF title = <<>> THEN title
    ELSE <<UpperChar(title[1])>> \o Tail(title)

Ellipsis == <<".", ".", ".">>

\* lines 73-92: the title of a sentence, title_draw the outcome of randint(5, 7)
MakeTitleNoEllipsis(sentence, title_draw) ==
    LET words == SplitWords(sentence)
        title_length == Min(Len(words), title_draw)
    IN  Capitalize(StripFiller(JoinWords(Take(words, title_length))))
MakeTitle(sentence, title_draw) ==
    LET words == SplitWords(sentence)
        title_length == Min(Len(words), title_draw)
        title == Capitalize(StripFiller(JoinWords(Take(words, title_length))))
    IN  IF Len(words) > title_length /\ ~EndsWith(title, Ellipsis)
        THEN title \o Ellipsis
        ELSE title

\* line 98
duration_options == <<30, 45, 60, 75, 90, 120>>

\* line 109: words never taken as key words
StopWords == {
    <<"n","e","e","d">>, <<"h","a","v","e">>, <<"m","u","s","t">>, <<"s","h","o","u","l","d">>,
    <<"w","i","l","l">>, <<"w","a","n","t">>, <<"g","o","i","n","g">>, <<"p","l","a","n">> }

\* lines 108-109
IsKeyWord(w) == Len(w) > 4 /\ Lower(w) \notin StopWords

KeyWords(words) == SelectSeq(words, IsKeyWord)

\* lines 115-124: a formatted template is its fixed text and the context
ContextTemplates(context) == <<
    <<"Research and gather information about ", context>>,
    <<"Create initial outline or plan for ", context>>,
    <<"Draft the main content for ", context>>,
    <<"Review and refine ", context>>,
    <<"Get feedback on ", context>>,
    <<"Make final revisions to ", context>>,
    <<"Prepare supporting materials for ", context>>,
    <<"Test and validate ", context>> >>

\* lines 127-138
GenericTemplates == <<
    <<"Research and gather necessary information", <<>> >>,
    <<"Create initial draft or outline", <<>> >>,
    <<"Review and refine the content", <<>> >>,
    <<"Get stakeholder feedback", <<>> >>,
    <<"Make final revisions and improvements", <<>> >>,
    <<"Prepare supporting documentation", <<>> >>,
    <<"Schedule follow-up meeting if needed", <<>> >>,
    <<"Document findings and results", <<>> >>,
    <<"Organize and structure materials", <<>> >>,
    <<"Test and validate the approach", <<>> >> >>

\* lines 108-138
SubtaskTemplates(sentence) ==
    LET key_words == KeyWords(SplitWords(sentence))
    IN  IF Len(key_words) >= 2
        THEN ContextTemplates(JoinWords(Take(key_words, 2)))
        ELSE GenericTemplates

\* lines 141-143: shuffle a copy, keep the first num_subtasks
PickSubtasksRepeat(templates, num_subtasks, rng, j) ==
    [i \in 1..num_subtasks |-> RandChoice(templates, rng, j + i - 1)]
PickSubtasks(templates, num_subtasks, rng, j) ==
    Take(Shuffle(templates, rng, j), num_subtasks)

\* round(x, 1) of x given in units of 1/900, as tenths, ties to even
RoundTenths(x) ==
    LET q == x \div 90
        r == x % 90
    IN  IF r < 45 THEN q
        ELSE IF r > 45 THEN q + 1
        ELSE IF q % 2 = 0 THEN q ELSE q + 1

\* lines 150-151: priority_adjustment in units of 1/900
PriorityAdjustment(estimated_duration) == (estimated_duration - 30) * 100

\* lines 147-154: base in units of 1/900, the result in tenths
PriorityScoreUnclamped(base, estimated_duration) ==
    RoundTenths(base + PriorityAdjustment(estimated_duration))
PriorityScore(base, estimated_duration) ==
    RoundTenths(Min(72000, base + PriorityAdjustment(estimated_duration)))

\* the number of draws one loop iteration consumes
DrawsPerTask(sentence) == 3 + (Len(SubtaskTemplates(sentence)) - 1) + 1

\* line 99
DurationDraw(rng, j) == RandChoice(duration_options, rng, j)

\* line 163
NewTaskStatusCompleted == "completed"
NewTaskStatus == "pending"

\* lines 71-167: one iteration of the loop, reading the stream from draw j
SynthesizeTask(sentence, rng, j, uuid) ==
    LET templates == SubtaskTemplates(sentence)
        estimated_duration == DurationDraw(rng, j + 1)
        num_subtasks == RandInt(2, 4, rng, j + 2)
    IN  [ task_id |-> uuid,
          title |-> MakeTitle(sentence, RandInt(5, 7, rng, j)),
          description |-> Strip(sentence),
          estimated_duration |-> estimated_duration,
          subtasks |-> PickSubtasks(templates, num_subtasks, rng, j + 3),
          status |-> NewTaskStatus,
          priority_score |->
              PriorityScore(RandUniform4080(rng, j + 2 + Len(templates)),
                            estimated_duration) ]

RECURSIVE SynthesizeAll(_, _, _, _)
SynthesizeAll(selected, rng, j, uuid) ==
    IF selected = <<>> THEN <<>>
    ELSE <<SynthesizeTask(Head(selected), rng, j, uuid)>>
         \o SynthesizeAll(Tail(selected), rng, j + DrawsPerTask(Head(selected)), uuid + 1)

\* line 60: selected_sentences
SelectSkipFirst(sentences, num_tasks) == Take(Drop(sentences, 1) \o Take(sentences, 1), num_tasks)
SelectSentences(sentences, num_tasks) == Take(sentences, num_tasks)

\* lines 43-54: the early returns
EarlyReturn(text) == text = <<>> \/ Strip(text) = <<>> \/ Sentences(text) = <<>>

\* lines 43-169: the call parse_journal_mock(text), s the state of the random
\* source and uuid the number of the next fresh uuid
ParseJournalMock(text, s, uuid) ==
    IF EarlyReturn(text) THEN <<>>
    ELSE LET sentences == Sentences(text)
             rng == RngStream(s, Len(sentences))
             num_tasks == NumTasks(Len(sentences), RandInt(3, 5, rng, 0))
         IN  SynthesizeAll(SelectSentences(sentences, num_tasks), rng, 1, uuid)

(***************************************************************************)
(* Journal texts the model feeds to the engine                             *)
(***************************************************************************)
\* a sentence of 8 words that opens with a filler phrase
UnitLong == <<"I"," ","n","e","e","d"," ","t","o"," ","p","r","e","p","a","r","e"," ","s","l","i","d","e","s"," ","f","o","r"," ","m","y"," ","p","r","e","s","e","n","t","a","t","i","o","n",".">>
\* a piece of exactly 10 characters once stripped
UnitTen == <<" ","W","r","i","t","e"," ","c","o","d","e","!">>
\* a piece of exactly 11 characters once stripped, after a newline
UnitEleven == <<"\n"," ","W","r","i","t","e"," ","t","e","s","t","s"," ","?">>
Units == {UnitLong, UnitTen, UnitEleven}

RECURSIVE Concat(_)
Concat(us) == IF us = <<>> THEN <<>> ELSE Head(us) \o Concat(Tail(us))

GeneratedJournals == {Concat(us) : us \in UNION {[1..n -> Units] : n \in 0..MaxUnits}}

\* the three-sentence scenario
ScenarioJournal == <<"I"," ","n","e","e","d"," ","t","o"," ","p","r","e","p","a","r","e"," ","s","l","i","d","e","s"," ","f","o","r"," ","m","y"," ","p","r","e","s","e","n","t","a","t","i","o","n","."," ","I"," ","a","l","s","o"," ","n","e","e","d"," ","t","o"," ","r","e","v","i","e","w"," ","c","o","d","e"," ","a","n","d"," ","f","i","x"," ","b","u","g","s","."," ","F","i","n","a","l","l","y"," ","I"," ","s","h","o","u","l","d"," ","w","r","i","t","e"," ","d","o","c","u","m","e","n","t","a","t","i","o","n"," ","f","o","r"," ","t","h","e"," ","p","r","o","j","e","c","t",".">>
WhitespaceJournal == <<" ", " ", "\n", "\t", " ">>

\* tests/verify_setup.py line 287: three activities in one sentence
SetupJournal == <<"I"," ","n","e","e","d"," ","t","o"," ","p","r","e","p","a","r","e"," ","p","r","e","s","e","n","t","a","t","i","o","n"," ","s","l","i","d","e","s",","," ","p","r","a","c","t","i","c","e"," ","m","y"," ","d","e","m","o",","," ","a","n","d"," ","r","e","v","i","e","w"," ","f","e","e","d","b","a","c","k"," ","f","r","o","m"," ","t","h","e"," ","t","e","a","m",".">>

\* statements that open with a filler phrase: in another letter case, with
\* nothing after it, and followed by a filler phrase again
FillerJournal == <<"i"," ","H","A","V","E"," ","t","o"," ","c","a","l","l"," ","t","h","e"," ","b","a","n","k"," ","t","o","d","a","y","."," ","I"," ","a","m"," ","g","o","i","n","g"," ","t","o","."," ","I"," ","n","e","e","d"," ","t","o"," ","I"," ","n","e","e","d"," ","t","o"," ","r","e","s","t"," ","m","o","r","e"," ","t","o","d","a","y",".">>

Journals == GeneratedJournals \cup {ScenarioJournal, WhitespaceJournal, FillerJournal}

(***************************************************************************)
(* Specification SpecMock: one call of parse_journal_mock on a journal of  *)
(* Journals, for every state 0..MaxSeed of the random source               *)
(***************************************************************************)
\* Python values the coach is called with: None, a str, an int, a dict
PyNone == [type |-> "None"]
PyStr(s) == [type |-> "str", text |-> s]
PyInt(n) == [type |-> "int", num |-> n]
PyDict(items) == [type |-> "dict", items |-> items]

\* what a call of the coach gives back
Raised == [raised |-> TRUE, message |-> <<>>]
Returned(message) == [raised |-> FALSE, message |-> message]

\* no call of the coach has been made
NoCoachCall ==
    /\ message_type = "none"
    /\ coach_context = PyNone
    /\ coach_result = Returned(<<>>)

\* no database operation has been called
NoDatabaseCall == db_call = [op |-> "none", raised |-> FALSE, sql |-> 0]

\* utils/models.py initialize_session_state
SessionStateInit ==
    /\ tasks = <<>>
    /\ current_task = 0
    /\ timer_running = FALSE
    /\ time_remaining = 0
    /\ session_start = <<>>
    /\ completed_sessions = 0
    /\ total_focus_time = 0

\* nothing shown yet, no focus session yet
NothingShown ==
    /\ journal_outcome = "none"
    /\ warned = FALSE
    /\ engine = "none"
    /\ ai_source_shown = "none"
    /\ last_save = "none"
    /\ run_elapsed = 0
    /\ expired = FALSE

\* SnowflakeClient.__init__
ClientInit == is_connected = FALSE /\ session = "None"

InitMock ==
    /\ journal_text \in Journals
    /\ seed \in 0..MaxSeed
    /\ cortex = [kind |-> "none", payload |-> <<>>]
    /\ mock_pc = "call"
    /\ mock_result = <<>>
    /\ NoCoachCall
    /\ NoDatabaseCall
    /\ ClientInit
    /\ SessionStateInit
    /\ now = 0
    /\ NothingShown

\* tasks = parse_journal_mock(journal_text)
MockCall ==
    /\ mock_pc = "call"
    /\ mock_result' = ParseJournalMock(journal_text, seed, 1)
    /\ mock_pc' = "done"
    /\ UNCHANGED <<journal_text, seed, cortex, coachVars, db_call>>
    /\ UNCHANGED <<clientVars, tasks, timerVars, statVars, now, shownVars, historyVars>>

NextMock == MockCall

SpecMock == InitMock /\ [][NextMock]_vars

(***************************************************************************)
(* Claims about parse_journal_mock, checked under SpecMock                 *)
(***************************************************************************)
LongerThanTen(p) == Len(p) > 10

\* the segments of a text as the claims define them: the text split on
\* '.', '!', '?' and newline, each piece trimmed, those longer than 10 kept
ValidSegments(text) ==
    LET pieces == ReSplit(text)
    IN  SelectSeq([i \in 1..Len(pieces) |-> Strip(pieces[i])], LongerThanTen)

\* C1: parse_journal_mock returns exactly min(n, k) tasks for some k in
\* {3,4,5}, n being the number of segments longer than 10 once trimmed; so
\* between 1 and 5 tasks when n >= 1, never more than n, and 3 when n = 3.
C1_TaskCount ==
    mock_pc = "done" =>
        LET n == Len(ValidSegments(journal_text))
            m == Len(mock_result)
        IN  /\ \E k \in 3..5 : m = Min(n, k)
            /\ (n >= 1 => m \in 1..5)
            /\ m <= n
            /\ (n = 3 => m = 3)

\* a journal of six valid segments cut down to four tasks
C1_Witness ==
    /\ mock_pc = "done"
    /\ Len(ValidSegments(journal_text)) = 6
    /\ Len(mock_result) = 4

\* C2: every returned task has estimated_duration in {30,45,60,75,90,120},
\* between 2 and 4 subtasks with no two equal, and status 'pending'.
C2_TaskFields ==
    mock_pc = "done" =>
        \A i \in 1..Len(mock_result) :
            LET t == mock_result[i]
            IN  /\ t.estimated_duration \in {30, 45, 60, 75, 90, 120}
                /\ Len(t.subtasks) \in 2..4
                /\ \A a, b \in 1..Len(t.subtasks) :
                       a # b => t.subtasks[a] # t.subtasks[b]
                /\ t.status = "pending"

\* a call that returned a 120-minute task with four subtasks and a
\* 30-minute task
C2_Witness ==
    /\ mock_pc = "done"
    /\ \E i, j \in 1..Len(mock_result) :
           /\ mock_result[i].estimated_duration = 120
           /\ Len(mock_result[i].subtasks) = 4
           /\ mock_result[j].estimated_duration = 30

\* C3: parse_journal_mock returns an empty list when the text is empty or
\* whitespace-only, and when it is non-empty but no segment is longer than
\* 10 once trimmed.
C3_EmptyResult ==
    (/\ mock_pc = "done"
     /\ \/ journal_text = <<>>
        \/ Strip(journal_text) = <<>>
        \/ ValidSegments(journal_text) = <<>>)
    => mock_result = <<>>

\* a call on a non-blank text whose pieces are all 10 characters or shorter
C3_Witness ==
    /\ mock_pc = "done"
    /\ Strip(journal_text) # <<>>
    /\ Len(ReSplit(journal_text)) >= 3
    /\ ValidSegments(journal_text) = <<>>
    /\ mock_result = <<>>

\* C4: the description of the i-th returned task is the i-th valid segment
\* of the text, trimmed and otherwise verbatim: the tasks follow a prefix of
\* the valid segments, none skipped, none duplicated.
C4_OrderPreserved ==
    mock_pc = "done" =>
        LET segs == ValidSegments(journal_text)
        IN  /\ Len(mock_result) <= Len(segs)
            /\ \A i \in 1..Len(mock_result) : mock_result[i].description = segs[i]

\* three tasks from a text whose second piece is too short, and whose valid
\* segments differ
C4_Witness ==
    /\ mock_pc = "done"
    /\ journal_text = UnitLong \o UnitTen \o UnitEleven \o UnitLong
    /\ Len(mock_result) = 3
    /\ mock_result[1].description # mock_result[2].description

\* the values random.uniform(40, 80) takes in the model, in units of 1/900
BaseValues == {36000 + 144 * k : k \in 0..250}

\* C17: every priority_score equals min(80, base + 10*(estimated_duration -
\* 30)/90) rounded to one decimal for some base in [40, 80]; it lies in
\* [40, 80], the adjustment is 0 for duration 30 and 10 for duration 120.
C17_PriorityRange ==
    /\ PriorityAdjustment(30) = 0
    /\ PriorityAdjustment(120) = 10 * 900
    /\ mock_pc = "done" =>
           \A i \in 1..Len(mock_result) :
               /\ mock_result[i].priority_score >= 400
               /\ mock_result[i].priority_score <= 800
               /\ \E base \in BaseValues :
                      mock_result[i].priority_score =
                          RoundTenths(Min(80 * 900,
                              base + 100 * (mock_result[i].estimated_duration - 30)))

\* a task of duration 120 whose score was clamped to 80, and one of duration 30
C17_Witness ==
    /\ mock_pc = "done"
    /\ \E i \in 1..Len(mock_result) :
           /\ mock_result[i].estimated_duration = 120
           /\ mock_result[i].priority_score = 800
    /\ \E i \in 1..Len(mock_result) :
           /\ mock_result[i].estimated_duration = 30
           /\ mock_result[i].priority_score < 800

\* the first words of text are the words of the filler phrase f, in any case
FirstWordsAre(text, f) ==
    LET w == SplitWords(text)
        fw == SplitWords(f)
    IN  /\ Len(w) >= Len(fw)
        /\ \A k \in 1..Len(fw) : Lower(w[k]) = Lower(fw[k])

\* the text after the filler phrase f at the start of a statement
TextAfter(text, f) == JoinWords(Drop(SplitWords(text), Len(SplitWords(f))))

\* C18: for every statement whose first words are a recognised filler phrase
\* (in any letter case) the title does not start with that phrase and starts
\* with the capitalised first letter of the text that followed it.
C18_FillerRemoved ==
    mock_pc = "done" =>
        \A i \in 1..Len(mock_result) :
            \A k \in 1..Len(FillerPhrases) :
                FirstWordsAre(mock_result[i].description, FillerPhrases[k]) =>
                    /\ ~FirstWordsAre(mock_result[i].title, FillerPhrases[k])
                    /\ LET after == TextAfter(mock_result[i].description, FillerPhrases[k])
                       IN  /\ after # <<>>
                           /\ mock_result[i].title # <<>>
                           /\ mock_result[i].title[1] = UpperChar(after[1])

\* a title without the ellipsis marker at its end
TitleBody(title) ==
    IF EndsWith(title, Ellipsis) THEN SubSeq(title, 1, Len(title) - 3) ELSE title

\* the words of body are the words m+1..n of the statement, letter case aside
BuiltFrom(body, words, m, n) ==
    LET bw == SplitWords(body)
    IN  /\ Len(bw) = n - m
        /\ \A k \in 1..Len(bw) : Lower(bw[k]) = Lower(words[m + k])

\* C25: every title is non-empty and is built from at most the first 7 words
\* of the statement; it ends with '...' if and only if the statement has more
\* words than were taken for the title.
C25_TitleShape ==
    mock_pc = "done" =>
        \A i \in 1..Len(mock_result) :
            LET title == mock_result[i].title
                words == SplitWords(mock_result[i].description)
            IN  /\ title # <<>>
                /\ TitleBody(title) # <<>>
                /\ \E title_draw \in 5..7 :
                       LET n == Min(Len(words), title_draw)
                       IN  /\ n <= 7
                           /\ \E m \in 0..(n - 1) : BuiltFrom(TitleBody(title), words, m, n)
                           /\ EndsWith(title, Ellipsis) <=> Len(words) > n

\* a call that returned a truncated title of four words, cut from seven, and
\* a whole statement of two words as a title
C25_Witness ==
    /\ mock_pc = "done"
    /\ \E i, j \in 1..Len(mock_result) :
           /\ EndsWith(mock_result[i].title, Ellipsis)
           /\ Len(SplitWords(TitleBody(mock_result[i].title))) = 4
           /\ Len(SplitWords(mock_result[i].description)) = 8
           /\ ~EndsWith(mock_result[j].title, Ellipsis)
           /\ mock_result[j].title = mock_result[j].description

\* the title the docstring of parse_journal_mock shows (line 40)
DocstringTitle == <<"P","r","e","p","a","r","e"," ","s","l","i","d","e","s"," ","f","o","r"," ","m","y"," ","p","r","e","s","e","n","t","a","t","i","o","n">>

\* C22: parse_journal_mock('I need to prepare slides for my presentation.')
\* returns exactly one task whose title is 'Prepare slides for my
\* presentation', whatever title length is drawn.
C22_DocstringExample ==
    (mock_pc = "done" /\ journal_text = UnitLong) =>
        /\ Len(mock_result) = 1
        /\ mock_result[1].title = DocstringTitle

(***************************************************************************)
(* SnowflakeClient (utils/snowflake_client.py)                             *)
(***************************************************************************)
\* dict.get(key, default); a dictionary is a function on its keys
DictGet(d, key, default) == IF key \in DOMAIN d THEN d[key] ELSE default

\* A JSON value that is not an object is kept as a record with the one field
\* not_a_dict; it has no .get
IsDict(e) == "not_a_dict" \notin DOMAIN e

\* Elements a Cortex response list may hold.  The prompt asks for title,
\* description, estimated_duration and subtasks; nothing validates them.
CortexPlan ==
    [ title |-> <<"P","l","a","n"," ","t","h","e"," ","l","a","u","n","c","h">>,
      description |-> <<"C","o","l","l","e","c","t"," ","t","h","e"," ","l","a","u","n","c","h"," ","r","e","q","u","i","r","e","m","e","n","t","s"," ","f","r","o","m"," ","t","h","e"," ","t","e","a","m">>,
      estimated_duration |-> 30,
      subtasks |-> << <<"Outline", <<>> >>, <<"Review", <<>> >> >> ]
CortexNoDuration ==
    [ title |-> <<"W","r","i","t","e"," ","t","h","e"," ","s","u","m","m","a","r","y">>,
      subtasks |-> << <<"Outline", <<>> >>, <<"Review", <<>> >> >> ]
CortexZeroDuration ==
    [ title |-> <<"C","h","e","c","k"," ","t","h","e"," ","b","u","d","g","e","t">>,
      description |-> <<"C","h","e","c","k"," ","t","h","e"," ","b","u","d","g","e","t">>,
      estimated_duration |-> 0,
      subtasks |-> <<>> ]
CortexString == [not_a_dict |-> "string"]

\* An element whose estimated_duration is a JSON string, not a number; the
\* field text_duration marks it, as no test tells a string from a number
CortexTextDuration ==
    [ title |-> <<"B","o","o","k"," ","t","h","e"," ","r","o","o","m">>,
      description |-> <<"B","o","o","k"," ","a"," ","r","o","o","m"," ","f","o","r"," ","t","h","e"," ","r","e","v","i","e","w">>,
      estimated_duration |-> "45",
      subtasks |-> << <<"Outline", <<>> >>, <<"Review", <<>> >> >>,
      text_duration |-> TRUE ]

CortexLists == { <<>>, <<CortexPlan>>, <<CortexNoDuration>>, <<CortexZeroDuration>>,
                 <<CortexString>>, <<CortexPlan, CortexString>> }

\* What lines 200-215 can meet: the query raises, the response is empty, the
\* cleaned response is not JSON, the JSON is not a list, or it is a list
CortexOutcomes ==
    { [kind |-> k, payload |-> <<>>] : k \in {"raise", "empty", "not_json", "not_list"} }
    \cup { [kind |-> "list", payload |-> p] : p \in CortexLists }

\* get_ai_source
GetAiSource(connected) ==
    IF connected THEN "Snowflake Cortex AI" ELSE "Mock AI (Demo Mode)"

\* lines 167-217: the Cortex path is taken and returns
CortexReturnsUnvalidated(connected, sess, outcome) ==
    connected /\ sess # "None" /\ outcome.kind \in {"list", "not_list"}
CortexReturns(connected, sess, outcome) ==
    connected /\ sess # "None" /\ outcome.kind = "list"

\* lines 166-236: client.parse_journal(journal_text), mock_tasks being what
\* parse_journal_mock(journal_text) returns when line 232 calls it; what the
\* call returns, whether it emitted the mock-AI warning, and the engine that
\* produced the result
ClientParseJournal(connected, sess, outcome, mock_tasks) ==
    IF CortexReturns(connected, sess, outcome)
    THEN [result |-> outcome.payload, warned |-> FALSE, engine |-> "cortex"]
    ELSE [result |-> mock_tasks, warned |-> TRUE, engine |-> "mock"]

\* connect(): the session is created and is_connected set, or nothing changes
Connect ==
    /\ mock_pc = "call"
    /\ ~is_connected
    /\ \/ is_connected' = TRUE /\ session' = "open"
       \/ UNCHANGED <<is_connected, session>>
    /\ UNCHANGED <<mockVars, tasks, timerVars, statVars, now, shownVars, historyVars>>

\* close(): is_connected is cleared unless session.close() raises
Close ==
    /\ mock_pc = "call"
    /\ session # "None"
    /\ is_connected' \in {FALSE, is_connected}
    /\ UNCHANGED <<session, mockVars, tasks, timerVars, statVars, now, shownVars, historyVars>>

\* lines 97-105: _ensure_connected raises
EnsureConnectedSessionOnly(connected, sess) == sess = "None"
EnsureConnectedRaises(connected, sess) == ~connected \/ sess = "None"

\* the operations that begin with _ensure_connected (lines 333, 387, 454,
\* 490, 527) and then issue one SQL statement inside try/except-raise
DatabaseOperations ==
    {"save_task", "get_all_tasks", "update_task_status", "save_work_session",
     "get_session_statistics"}

\* one database operation on the client: what it raised and how many SQL
\* statements it issued; on a connected client the statement may fail
DatabaseOutcomes(connected, sess, op) ==
    IF EnsureConnectedRaises(connected, sess)
    THEN {[op |-> op, raised |-> TRUE, sql |-> 0]}
    ELSE {[op |-> op, raised |-> r, sql |-> 1] : r \in BOOLEAN}

\* client.save_task(...), client.get_all_tasks() and the other three
DatabaseCall ==
    \E op \in DatabaseOperations :
        /\ db_call' \in DatabaseOutcomes(is_connected, session, op)
        /\ UNCHANGED <<journal_text, seed, cortex, mock_pc, mock_result, coachVars>>
        /\ UNCHANGED <<clientVars, tasks, timerVars, statVars, now, shownVars, historyVars>>

\* journals of at most two units, the scenario and the blank one
ClientJournals ==
    {Concat(us) : us \in UNION {[1..n -> Units] : n \in 0..2}}
    \cup {ScenarioJournal, WhitespaceJournal, SetupJournal}

\* what parse_journal_mock returns at line 232, for each text and each state
\* of the random source
ClientMockResults ==
    [x \in ClientJournals, s \in 0..MaxSeed |-> ParseJournalMock(x, s, 1)]

\* tasks = client.parse_journal(journal_text)
ClientCall ==
    /\ mock_pc = "call"
    /\ LET r == ClientParseJournal(is_connected, session, cortex,
                                    ClientMockResults[journal_text, seed])
       IN  /\ mock_result' = r.result
           /\ warned' = r.warned
           /\ engine' = r.engine
    /\ mock_pc' = "done"
    /\ UNCHANGED <<journal_text, seed, cortex, coachVars, db_call>>
    /\ UNCHANGED <<clientVars, tasks, timerVars, statVars, now,
                   journal_outcome, ai_source_shown, last_save, historyVars>>

InitClient ==
    /\ journal_text \in ClientJournals
    /\ seed \in 0..MaxSeed
    /\ cortex \in CortexOutcomes
    /\ mock_pc = "call"
    /\ mock_result = <<>>
    /\ NoCoachCall
    /\ NoDatabaseCall
    /\ ClientInit
    /\ SessionStateInit
    /\ now = 0
    /\ NothingShown

NextClient == Connect \/ Close \/ DatabaseCall \/ ClientCall

SpecClient == InitClient /\ [][NextClient]_vars

(***************************************************************************)
(* The coach: utils/mock_ai.py get_coach_message_mock and                  *)
(* SnowflakeClient.get_coach_message.  A message is a sequence of pieces   *)
(* of text; a template holds each placeholder as a piece of its own.  The  *)
(* emoji that end some templates are left out.                             *)
(***************************************************************************)
\* mock_ai.py lines 203-255: templates
SessionStartTemplates == <<
    <<"Let's crush this ", "{duration}", "-minute session on ", "{task}", "! You've got this! ">>,
    <<"Ready to focus on ", "{task}", "? Let's make these ", "{duration}", " minutes count!">>,
    <<"Time to dive deep into ", "{task}", ". Stay focused for ", "{duration}", " minutes!">>,
    <<"Starting your ", "{duration}", "-minute focus session on ", "{task}", ". Let's go! ">>,
    <<"Focus mode activated! ", "{duration}", " minutes of pure productivity on ", "{task}", ".">>,
    <<"Great choice working on ", "{task}", "! Let's make progress in ", "{duration}", " minutes.">>,
    <<"You've dedicated ", "{duration}", " minutes to ", "{task}", ". Let's make them matter!">>,
    <<"{duration}", " minutes of focused work ahead. ", "{task}", " won't know what hit it! ">>,
    <<"Ready, set, focus! ", "{duration}", " minutes on ", "{task}", " starts now.">>,
    <<"Block out distractions. ", "{duration}", " minutes of deep work on ", "{task}", " begins!">> >>

HalfwayTemplates == <<
    <<"You're halfway there! Keep that momentum going! ">>,
    <<"Great progress on ", "{task}", "! You've got this! ">>,
    <<"50% complete! Stay focused and finish strong!">>,
    <<"Awesome work so far! Keep pushing through on ", "{task}", "!">>,
    <<"You're doing great! Halfway through your focus session! ">>,
    <<"Strong work! Stay in the zone for the second half!">>,
    <<"Excellent progress! ", "{task}", " is coming together nicely!">>,
    <<"You're crushing it! Keep that focus for the rest!">>,
    <<"Halfway done with ", "{task}", "! Maintain that focus! ">>,
    <<"Great pace! Stay strong for the final half!">> >>

BreakTemplates == <<
    <<"Time for a break! Stand up, stretch, and recharge. You've earned it! ">>,
    <<"Great work! Take 15 minutes to rest and rejuvenate. ">>,
    <<"Break time! Grab some water and give your eyes a rest. ">>,
    <<"Well done! Step away from your screen and take a mindful break. ">>,
    <<"Excellent session! Take a walk and let your mind wander. ">>,
    <<"You've earned a break! Stretch, hydrate, and prepare for the next session. ">>,
    <<"Time to recharge! Take a short walk or do some light stretching. ">>,
    <<"Break time! Do something completely different for 15 minutes. ">>,
    <<"Great focus! Now rest your mind with a proper break. ">>,
    <<"Session complete! Take time to breathe and reset. ">> >>

CompletionTemplates == <<
    <<"Excellent work! You've successfully completed ", "{task}", "! ">>,
    <<"Task completed! Another win in the books! You're on fire! ">>,
    <<"Boom! ", "{task}", " is done! Great job staying focused! ">>,
    <<"Mission accomplished! ", "{task}", " is checked off your list! ">>,
    <<"Fantastic! You crushed ", "{task}", "! Keep up the momentum! ">>,
    <<"Well done! ", "{task}", " is complete! You're making great progress! ">>,
    <<"Success! Another task conquered! You're unstoppable! ">>,
    <<"{task}", " is finished! Take a moment to celebrate your achievement! ">>,
    <<"Outstanding work on ", "{task}", "! You stayed focused and delivered! ">>,
    <<"Complete! ", "{task}", " is done and dusted! Keep riding this wave! ">> >>

GenericCoachTemplates == <<
    <<"Keep up the great work! You're doing awesome! ">> >>

\* lines 258-260: templates.get(message_type, [generic])
CoachTemplates(mtype) ==
    CASE mtype = "session_start" -> SessionStartTemplates
      [] mtype = "halfway" -> HalfwayTemplates
      [] mtype = "break" -> BreakTemplates
      [] mtype = "completion" -> CompletionTemplates
      [] OTHER -> GenericCoachTemplates

\* lines 195-196: a None context is the empty dict
ContextItems(ctx) == IF ctx.type = "None" THEN <<>> ELSE ctx.items

\* str(value)
PyStrOf(v) ==
    CASE v.type = "str" -> v.text
      [] v.type = "int" -> ToString(v.num)
      [] OTHER -> "None"

\* str.replace(old, new) on a message whose placeholders are whole pieces
Replace(message, old, new) ==
    [i \in 1..Len(message) |-> IF message[i] = old THEN new ELSE message[i]]

\* lines 172-269: get_coach_message_mock(message_type, context) with the
\* random source in state s; str.replace raises when task_name is not a str
GetCoachMessageMock(mtype, ctx, s) ==
    LET task_name == DictGet(ContextItems(ctx), "task", PyStr("this task"))
        duration == DictGet(ContextItems(ctx), "duration", PyInt(90))
        message == RandChoice(CoachTemplates(mtype), RngStreamFrom(s, 1), 0)
    IN  IF task_name.type # "str" THEN Raised
        ELSE Returned(Replace(Replace(message, "{task}", task_name.text),
                              "{duration}", PyStrOf(duration)))

\* str.strip(ch) for one character ch
RECURSIVE LStripChar(_, _)
LStripChar(s, ch) ==
    IF s = <<>> THEN <<>>
    ELSE IF Head(s) = ch THEN LStripChar(Tail(s), ch) ELSE s

RECURSIVE RStripChar(_, _)
RStripChar(s, ch) ==
    IF s = <<>> THEN <<>>
    ELSE IF s[Len(s)] = ch THEN RStripChar(SubSeq(s, 1, Len(s) - 1), ch) ELSE s

StripChar(s, ch) == RStripChar(LStripChar(s, ch), ch)

\* snowflake_client.py line 287: message.strip().strip('"').strip("'")
CleanCoachResponse(response) == StripChar(StripChar(Strip(response), "\""), "'")

\* what the Cortex query of a coach call can come back with: it raises, the
\* response is empty, or it is a text
CoachResponses == {
    <<"\"","S","t","a","y"," ","f","o","c","u","s","e","d","!","\"">>,
    <<"K","e","e","p"," ","g","o","i","n","g","\n">>,
    <<"\"","\"">>,
    <<" ">> }
CoachOutcomes ==
    { [kind |-> k, payload |-> <<>>] : k \in {"raise", "empty"} }
    \cup { [kind |-> "text", payload |-> p] : p \in CoachResponses }

\* lines 304-311: the fixed messages of the last resort
FallbackMessage(mtype) ==
    CASE mtype = "session_start" -> <<"Let's focus and make great progress on this task!">>
      [] mtype = "halfway" -> <<"You're doing great! Keep up the momentum!">>
      [] mtype = "break" -> <<"Take a short walk and stretch. You've earned it!">>
      [] mtype = "completion" -> <<"Excellent work! You've successfully completed this task!">>
      [] OTHER -> <<"Keep up the great work!">>

\* lines 251-289: the Cortex path of get_coach_message returns; context.get
\* raises on a None context
CoachCortexReturns(connected, sess, ctx, outcome) ==
    connected /\ sess # "None" /\ ctx.type # "None" /\ outcome.kind = "text"

\* lines 238-311: client.get_coach_message(message_type, context)
ClientGetCoachMessage(connected, sess, mtype, ctx, outcome, s) ==
    IF CoachCortexReturns(connected, sess, ctx, outcome)
    THEN Returned(CleanCoachResponse(outcome.payload))
    ELSE LET m == GetCoachMessageMock(mtype, ctx, s)
         IN  IF m.raised THEN Returned(FallbackMessage(mtype)) ELSE m

\* the message types and contexts the coach is called with
CoachTypes == {"session_start", "halfway", "break", "completion", "cheer"}
WriteReportContext == PyDict([task |-> PyStr("Write Report"), duration |-> PyInt(60)])
CoachContexts == {
    PyNone,
    PyDict(<<>>),
    WriteReportContext,
    PyDict([task |-> PyStr("Write Report")]),
    PyDict([task |-> PyNone, duration |-> PyInt(25)]) }

InitCoach ==
    /\ message_type \in CoachTypes
    /\ coach_context \in CoachContexts
    /\ coach_result = Returned(<<>>)
    /\ NoDatabaseCall
    /\ seed \in 0..MaxSeed
    /\ cortex \in CoachOutcomes
    /\ journal_text = <<>>
    /\ mock_pc = "call"
    /\ mock_result = <<>>
    /\ \/ is_connected = TRUE /\ session = "open"
       \/ is_connected = FALSE /\ session = "None"
    /\ SessionStateInit
    /\ now = 0
    /\ NothingShown

\* message = get_coach_message_mock(message_type, context)
CoachMockCall ==
    /\ mock_pc = "call"
    /\ coach_result' = GetCoachMessageMock(message_type, coach_context, seed)
    /\ mock_pc' = "mock_done"
    /\ UNCHANGED <<journal_text, seed, cortex, mock_result, message_type, coach_context, db_call>>
    /\ UNCHANGED <<clientVars, tasks, timerVars, statVars, now, shownVars, historyVars>>

\* message = client.get_coach_message(message_type, context)
CoachClientCall ==
    /\ mock_pc = "call"
    /\ coach_result' = ClientGetCoachMessage(is_connected, session, message_type,
                                             coach_context, cortex, seed)
    /\ mock_pc' = "client_done"
    /\ UNCHANGED <<journal_text, seed, cortex, mock_result, message_type, coach_context, db_call>>
    /\ UNCHANGED <<clientVars, tasks, timerVars, statVars, now, shownVars, historyVars>>

NextCoach == CoachMockCall \/ CoachClientCall

SpecCoach == InitCoach /\ [][NextCoach]_vars

\* the text of a message is not empty
NonEmptyMessage(message) == \E i \in 1..Len(message) : message[i] # ""

\* C19: get_coach_message_mock and client.get_coach_message return a
\* non-empty string without raising for every message_type and context; an
\* unrecognised message_type gives the generic encouragement, a missing or
\* None context the defaults 'this task' and 90, and a failed Cortex path a
\* message of the template pool.
C19_CoachNeverFails ==
    mock_pc \in {"mock_done", "client_done"} =>
        /\ ~coach_result.raised
        /\ NonEmptyMessage(coach_result.message)
        /\ (mock_pc = "mock_done" /\ message_type = "cheer")
               => coach_result.message = GenericCoachTemplates[1]
        /\ (mock_pc = "mock_done" /\ ContextItems(coach_context) = <<>>)
               => coach_result = GetCoachMessageMock(message_type,
                      PyDict([task |-> PyStr("this task"), duration |-> PyInt(90)]), seed)
        /\ (mock_pc = "client_done" /\ is_connected /\ cortex.kind \in {"raise", "empty"}
                /\ coach_context = WriteReportContext)
               => coach_result = GetCoachMessageMock(message_type, coach_context, seed)

\* C20: get_coach_message_mock('completion', {'task': 'Write Report',
\* 'duration': 60}) contains 'Write Report' and no placeholder, whichever
\* template is chosen.
C20_CompletionNamesTask ==
    (mock_pc = "mock_done" /\ message_type = "completion"
         /\ coach_context = WriteReportContext)
        => /\ ~coach_result.raised
           /\ \E i \in 1..Len(coach_result.message) : coach_result.message[i] = "Write Report"
           /\ \A i \in 1..Len(coach_result.message) :
                  coach_result.message[i] \notin {"{task}", "{duration}"}

(***************************************************************************)
(* The Streamlit script (app.py): one action per script run                *)
(***************************************************************************)
UntitledTask == <<"U","n","t","i","t","l","e","d"," ","T","a","s","k">>

\* lines 447-456: Task(...) from one element of the parsed list; uuid is the
\* fresh uuid4 of the default.  created_at, which only the "Recent" order of
\* the task grid reads, is not kept.
ToTask(task_data, uuid) ==
    [ id |-> DictGet(task_data, "task_id", uuid),
      title |-> DictGet(task_data, "title", UntitledTask),
      description |-> DictGet(task_data, "description", <<>>),
      estimated_duration |-> DictGet(task_data, "estimated_duration", 60),
      subtasks |-> DictGet(task_data, "subtasks", <<>>),
      status |-> DictGet(task_data, "status", "pending"),
      priority_score |-> DictGet(task_data, "priority_score", 500) ]

\* lines 446-457: task_data.get raises on an element that is not a dict
ConversionRaises(parsed) == \E i \in 1..Len(parsed) : ~IsDict(parsed[i])

\* lines 466-469: sum(t.estimated_duration for t in parsed_tasks) raises when
\* an estimated_duration is not a number
SummaryRaises(parsed) == \E i \in 1..Len(parsed) : "text_duration" \in DOMAIN parsed[i]

\* lines 445-457: parsed_tasks, the new tasks numbered from uuid on
ConvertAll(parsed, uuid) == [i \in 1..Len(parsed) |-> ToTask(parsed[i], uuid + i - 1)]

\* lines 186-191: remaining, read at wall-clock time t
RemainingUnclamped(running, remaining_stored, start, t) ==
    IF running THEN remaining_stored - (t - start[1]) ELSE remaining_stored
Remaining(running, remaining_stored, start, t) ==
    IF running THEN Max(0, remaining_stored - (t - start[1])) ELSE remaining_stored

\* remaining as display_focus_session computes it in the current state
CurrentRemaining == Remaining(timer_running, time_remaining, session_start, now)

\* lines 122 and 199: the minutes of a task as seconds
TotalDurationMinutes(task) == task.estimated_duration
TotalDuration(task) == task.estimated_duration * 60

\* lines 200-201: progress as the fraction num/den, clamped between 0 and 1;
\* no division when total_duration is not positive
ProgressUnguarded(remaining, total_duration) ==
    [num |-> Max(0, Min(total_duration, total_duration - remaining)), den |-> total_duration]
Progress(remaining, total_duration) ==
    IF total_duration > 0
    THEN [num |-> Max(0, Min(total_duration, total_duration - remaining)), den |-> total_duration]
    ELSE [num |-> 1, den |-> 1]

\* line 297: the auto-rerun branch is taken
AutoRerunActive == current_task # 0 /\ timer_running /\ CurrentRemaining > 0

\* line 302: the timer-finished branch is taken
ExpiryObservedStrict == current_task # 0 /\ timer_running /\ CurrentRemaining < 0
ExpiryObserved == current_task # 0 /\ timer_running /\ CurrentRemaining <= 0

\* lines 163-305 in a run where no button of the focus tab is pressed: the
\* auto-rerun branch changes nothing, the timer-finished branch stops the timer
FocusTabIdle ==
    /\ timer_running' = (IF ExpiryObserved THEN FALSE ELSE timer_running)
    /\ expired' = (IF ExpiryObserved THEN TRUE ELSE expired)
    /\ UNCHANGED <<current_task, time_remaining, session_start, run_elapsed>>

\* a script run that reaches none of the messages the model records
ShowNothing ==
    /\ journal_outcome' = "none"
    /\ warned' = FALSE
    /\ engine' = "none"
    /\ ai_source_shown' = "none"
    /\ last_save' = "none"

\* the steps by which the model lets the wall clock advance
TickSteps == {600, 1830}

\* time passes between script runs (time.sleep, the user waiting)
Tick ==
    \E d \in TickSteps :
        /\ now + d <= MaxNow
        /\ now' = now + d
        /\ run_elapsed' = (IF timer_running THEN run_elapsed + d ELSE run_elapsed)
        /\ UNCHANGED <<mockVars, clientVars, tasks, timerVars, statVars, shownVars, expired>>

\* a script run with no button pressed: the auto-rerun of line 299 or any
\* other widget interaction
Rerun ==
    /\ FocusTabIdle
    /\ ShowNothing
    /\ UNCHANGED <<mockVars, clientVars, tasks, statVars, now>>

\* lines 341-343 and get_snowflake_client: the cached client is dropped and a
\* new one connects or fails to
RefreshConnection ==
    /\ \/ is_connected' = TRUE /\ session' = "open"
       \/ is_connected' = FALSE /\ session' = "None"
    /\ ShowNothing
    /\ UNCHANGED <<mockVars, tasks, timerVars, statVars, now, historyVars>>

\* journal texts typed into the app
AppJournals == {WhitespaceJournal, UnitTen, UnitLong, UnitLong \o UnitEleven}

\* the calls of parse_journal_mock the app can make: the text, the state of
\* the random source, the number of the next fresh uuid, and what is returned
AppMockCalls ==
    { [text |-> x, s |-> s, uuid |-> u, result |-> ParseJournalMock(x, s, u)] :
          x \in AppJournals, s \in 0..MaxAppSeed, u \in 1..(MaxTasks + 1) }

\* lines 435-483: "Break it Down" pressed on journal_input = text, the Cortex
\* query coming back with outcome, mock_tasks being what parse_journal_mock
\* returns on text
BreakItDown(text, outcome, mock_tasks) ==
    IF Strip(text) = <<>>
    THEN /\ journal_outcome' = "blank"
         /\ warned' = FALSE
         /\ engine' = "none"
         /\ ai_source_shown' = "none"
         /\ last_save' = "none"
         /\ FocusTabIdle
         /\ UNCHANGED <<mockVars, clientVars, tasks, statVars, now>>
    ELSE LET r == ClientParseJournal(is_connected, session, outcome, mock_tasks)
         IN  /\ warned' = r.warned
             /\ engine' = r.engine
             /\ IF ConversionRaises(r.result)
                THEN /\ journal_outcome' = "error"
                     /\ ai_source_shown' = "none"
                     /\ FocusTabIdle
                     /\ UNCHANGED tasks
                ELSE /\ Len(tasks) + Len(r.result) <= MaxTasks
                     /\ tasks' = tasks \o ConvertAll(r.result, Len(tasks) + 1)
                     /\ ai_source_shown' = GetAiSource(is_connected)
                     /\ IF SummaryRaises(r.result)
                        THEN /\ journal_outcome' = "error"
                             /\ FocusTabIdle
                        ELSE /\ journal_outcome' = "created"
                             /\ UNCHANGED <<timerVars, historyVars>>
             /\ last_save' = "none"
             /\ UNCHANGED <<mockVars, clientVars, statVars, now>>

\* no query is issued by a client that is not connected
NoQuery == [kind |-> "none", payload |-> <<>>]

\* what the query of a journal action can come back with: one is issued only
\* for a non-blank text on a connected client
QueryOutcomes(text) ==
    IF Strip(text) # <<>> /\ is_connected /\ session # "None"
    THEN CortexOutcomes ELSE {NoQuery}

\* the states the random source can be in when the mock engine is reached;
\* it is not consulted when the text is blank or the Cortex path returns
MockSeeds(text, outcome) ==
    IF Strip(text) # <<>> /\ ~CortexReturns(is_connected, session, outcome)
    THEN 0..MaxAppSeed ELSE {0}

\* "Break it Down" pressed, the query coming back with one of outcomes
JournalActionOn(text, outcomes) ==
    \E outcome \in outcomes :
        \E c \in AppMockCalls :
            /\ c.text = text
            /\ c.uuid = Len(tasks) + 1
            /\ c.s \in MockSeeds(text, outcome)
            /\ BreakItDown(text, outcome, c.result)

JournalAction == \E text \in AppJournals : JournalActionOn(text, QueryOutcomes(text))

\* line 108: the card of a task carries the Start or Continue button
StartOfferedAlways(task) == TRUE
StartOffered(task) == task.status # "completed"

\* lines 108-132: Start or Continue pressed on the card of tasks[i]
StartTask(i) ==
    /\ StartOffered(tasks[i])
    /\ current_task' = i
    /\ tasks' = [tasks EXCEPT ![i].status = "in_progress"]
    /\ time_remaining' = TotalDuration(tasks[i])
    /\ session_start' = <<now>>
    /\ timer_running' = TRUE
    /\ run_elapsed' = 0
    /\ expired' = FALSE
    /\ ShowNothing
    /\ UNCHANGED <<mockVars, clientVars, statVars, now>>

Start == \E i \in 1..Len(tasks) : StartTask(i)

\* line 233: the Pause button is rendered
PauseOffered == current_task # 0 /\ timer_running

\* lines 234-240: Pause pressed
Pause ==
    /\ PauseOffered
    /\ timer_running' = FALSE
    /\ time_remaining' = Max(0, time_remaining - (now - session_start[1]))
    /\ UNCHANGED <<current_task, session_start>>
    /\ ShowNothing
    /\ UNCHANGED <<mockVars, clientVars, tasks, statVars, now, historyVars>>

\* line 242: the Resume button is rendered
ResumeOfferedAtZero == current_task # 0 /\ ~timer_running
ResumeOffered == current_task # 0 /\ ~timer_running /\ CurrentRemaining > 0

\* lines 243-247: Resume pressed
Resume ==
    /\ ResumeOffered
    /\ timer_running' = TRUE
    /\ session_start' = <<now>>
    /\ UNCHANGED <<current_task, time_remaining>>
    /\ ShowNothing
    /\ UNCHANGED <<mockVars, clientVars, tasks, statVars, now, historyVars>>

\* line 255: actual_time
ActualTimeRoundedUp(task, remaining) == (TotalDuration(task) - remaining + 59) \div 60
ActualTime(task, remaining) == (TotalDuration(task) - remaining) \div 60

\* lines 313-375 as called at line 276: save_task raises when the client is
\* not connected, and may raise or return when it is
SaveOutcomes ==
    IF EnsureConnectedRaises(is_connected, session) THEN {"failed"} ELSE {"saved", "failed"}

\* lines 250-294: Complete pressed
Complete ==
    /\ current_task # 0
    /\ tasks' = [tasks EXCEPT ![current_task].status = "completed"]
    /\ completed_sessions' = completed_sessions + 1
    /\ total_focus_time' = total_focus_time + ActualTime(tasks[current_task], CurrentRemaining)
    /\ last_save' \in SaveOutcomes
    /\ journal_outcome' = "none"
    /\ warned' = FALSE
    /\ engine' = "none"
    /\ ai_source_shown' = "none"
    /\ current_task' = 0
    /\ timer_running' = FALSE
    /\ time_remaining' = 0
    /\ session_start' = <<>>
    /\ UNCHANGED <<mockVars, clientVars, now, historyVars>>

\* main() after initialize_session_state and get_snowflake_client
Init ==
    /\ journal_text = <<>>
    /\ seed = 0
    /\ cortex = [kind |-> "none", payload |-> <<>>]
    /\ mock_pc = "app"
    /\ mock_result = <<>>
    /\ NoCoachCall
    /\ NoDatabaseCall
    /\ \/ is_connected = TRUE /\ session = "open"
       \/ is_connected = FALSE /\ session = "None"
    /\ SessionStateInit
    /\ now = 0
    /\ NothingShown

Next ==
    \/ Tick
    \/ Rerun
    \/ RefreshConnection
    \/ JournalAction
    \/ Start
    \/ Pause
    \/ Resume
    \/ Complete

Spec == Init /\ [][Next]_vars

(***************************************************************************)
(* Specification SpecJournal: the journal action alone, the Cortex         *)
(* response being any of CortexOutcomes or a list with an element whose    *)
(* estimated_duration is a string.  No task is started: the timer code     *)
(* computes with estimated_duration.                                       *)
(***************************************************************************)
TextDurationLists == { <<CortexTextDuration>>, <<CortexPlan, CortexTextDuration>> }

\* what the query can come back with when nothing is assumed of the fields
UntypedOutcomes(text) ==
    IF QueryOutcomes(text) = {NoQuery} THEN {NoQuery}
    ELSE CortexOutcomes \cup { [kind |-> "list", payload |-> p] : p \in TextDurationLists }

JournalActionUntyped ==
    \E text \in AppJournals : JournalActionOn(text, UntypedOutcomes(text))

NextJournal == RefreshConnection \/ JournalActionUntyped

SpecJournal == Init /\ [][NextJournal]_vars

(***************************************************************************)
(* Specification SpecLive: the script left to itself while a timer runs.   *)
(* The user acts only while no timer is running and the wall clock is at   *)
(* most MaxNow; while the auto-rerun branch is taken the script sleeps and *)
(* reruns by itself (lines 297-299), which the fairness conditions state.  *)
(***************************************************************************)
\* the user may act: no timer is running
UserIdle == ~timer_running /\ now <= MaxNow

\* lines 298-299: time.sleep(1) in the auto-rerun branch, any number of times
AutoSleep ==
    \E d \in TickSteps :
        /\ AutoRerunActive
        /\ now' = now + d
        /\ run_elapsed' = run_elapsed + d
        /\ UNCHANGED <<mockVars, clientVars, tasks, timerVars, statVars, shownVars, expired>>

LiveTick == UserIdle /\ Tick
LiveJournalAction == UserIdle /\ JournalAction
LiveStart == UserIdle /\ Start
LiveResume == UserIdle /\ Resume
LiveComplete == UserIdle /\ Complete

NextLive ==
    \/ AutoSleep
    \/ Rerun
    \/ LiveTick
    \/ LiveJournalAction
    \/ LiveStart
    \/ LiveResume
    \/ LiveComplete

SpecLive == Init /\ [][NextLive]_vars /\ WF_vars(AutoSleep) /\ WF_vars(Rerun)

(***************************************************************************)
(* Properties of the client fallback, checked under SpecClient             *)
(***************************************************************************)
\* lines 200-215: the Cortex path of the call fails
CortexFails == cortex.kind \in {"raise", "empty", "not_json", "not_list"}

\* C5: parse_journal returns what parse_journal_mock returns on the same text
\* and emits the mock-AI warning whenever the client is not connected or the
\* Cortex path fails (raise, empty response, not JSON, JSON not a list); when
\* the Cortex path succeeds it returns the Cortex list, the local engine is
\* not invoked and no warning is emitted.
C5_FallbackWarns ==
    mock_pc = "done" =>
        /\ (~is_connected \/ CortexFails) =>
               /\ mock_result = ParseJournalMock(journal_text, seed, 1)
               /\ warned
               /\ engine = "mock"
        /\ (is_connected /\ cortex.kind = "list") =>
               /\ mock_result = cortex.payload
               /\ ~warned
               /\ engine = "cortex"

\* a connected client whose Cortex response was not JSON returned the tasks
\* of the local engine and warned
C5_Witness ==
    /\ mock_pc = "done"
    /\ is_connected
    /\ cortex.kind = "not_json"
    /\ warned
    /\ engine = "mock"
    /\ Len(mock_result) >= 1

\* C23: parse_journal returns at least 3 tasks for a journal that describes
\* three activities, connected or not; in particular for the journal of the
\* setup verification.
C23_ThreeActivities ==
    (mock_pc = "done" /\ journal_text \in {ScenarioJournal, SetupJournal}) =>
        Len(mock_result) >= 3

\* C21: on a client that is not connected, each of save_task, get_all_tasks,
\* update_task_status, save_work_session and get_session_statistics raises
\* before issuing any SQL, and leaves session and is_connected unchanged.
C21_DisconnectedRaises ==
    [][(DatabaseCall /\ ~is_connected)
       => /\ db_call'.raised
          /\ db_call'.sql = 0
          /\ UNCHANGED <<session, is_connected>>]_vars

\* save_task raised on a client whose session exists but was closed
C21_Witness ==
    /\ db_call.op = "save_task"
    /\ db_call.raised
    /\ db_call.sql = 0
    /\ ~is_connected
    /\ session = "open"

(***************************************************************************)
(* Properties of the Streamlit script, checked under Spec                  *)
(***************************************************************************)
\* C6: whatever the Cortex call of a non-blank journal comes back with
\* (exception, empty response, non-JSON text, a list whose elements are not
\* task records), "Break it Down" never ends in the 'Error parsing journal'
\* outcome.
C6_NoHardFailure == journal_outcome # "error"

\* C7: for a session started with D minutes, the remaining time read at any
\* moment equals max(0, D*60 - wall-clock time spent running since the start).
C7_RemainingIsRunTime ==
    current_task # 0 =>
        CurrentRemaining = Max(0, TotalDuration(tasks[current_task]) - run_elapsed)

\* C8: a re-evaluation of display_focus_session with no button pressed reads
\* the same remaining time as a second one at the same instant, and leaves
\* time_remaining, session_start and timer_running unchanged.
C8_ReadIdempotent ==
    [][Rerun => /\ CurrentRemaining' = CurrentRemaining
                /\ UNCHANGED <<time_remaining, session_start, timer_running>>]_vars

\* C9: while the timer stays running on the same anchor (no start, pause,
\* resume or complete in between), a read at a later or equal wall-clock time
\* is no larger than the earlier read and is never negative.
C9_RunningMonotone ==
    [][(/\ current_task # 0
        /\ timer_running
        /\ timer_running'
        /\ UNCHANGED <<current_task, time_remaining, session_start>>
        /\ now' >= now)
       => (CurrentRemaining' <= CurrentRemaining /\ CurrentRemaining' >= 0)]_vars

\* a running timer whose anchor lies further back than the stored remaining
\* time: the read is clamped at 0
C9_Witness ==
    /\ current_task # 0
    /\ timer_running
    /\ time_remaining > 0
    /\ now - session_start[1] > time_remaining
    /\ CurrentRemaining = 0

\* the remaining time of the session at this instant: recomputed from the
\* anchor if running, 0 once expiry was observed, the stored value if paused
TrueRemaining ==
    IF timer_running THEN Max(0, time_remaining - (now - session_start[1]))
    ELSE IF expired THEN 0 ELSE time_remaining

\* C10: a completion from Running, Paused or Expired credits
\* floor((estimated_duration*60 - r)/60) minutes to total_focus_time, r being
\* the true remaining time at that instant.
C10_CreditedMinutes ==
    [][(current_task # 0 /\ current_task' = 0)
       => total_focus_time' = total_focus_time
              + (TotalDuration(tasks[current_task]) - TrueRemaining) \div 60]_vars

\* C11: once a re-evaluation has observed remaining <= 0 while running, every
\* later read of the remaining time of that session is 0, Resume is not
\* offered and the timer is not running again.
C11_ExpiredStays ==
    (current_task # 0 /\ expired) =>
        /\ CurrentRemaining = 0
        /\ ~ResumeOffered
        /\ ~timer_running

\* C12: a Resume is accepted only with a positive stored remaining time and a
\* Pause only on a running timer; a run on a stopped timer in which no button
\* is accepted leaves timer_running, time_remaining and session_start as they
\* were.
C12_IllegalNoOp ==
    [][/\ Resume => (~timer_running /\ time_remaining > 0)
       /\ Pause => timer_running
       /\ (Rerun /\ ~timer_running)
              => UNCHANGED <<timer_running, time_remaining, session_start>>]_vars

\* a paused session whose stored remaining time is 0
C12_Witness ==
    /\ current_task # 0
    /\ ~timer_running
    /\ ~expired
    /\ time_remaining = 0
    /\ TotalDuration(tasks[current_task]) > 0

\* C13: a completed task keeps its status, no task returns to pending, and a
\* task becomes completed only from in_progress.
C13_StatusForward ==
    [][/\ Len(tasks') >= Len(tasks)
       /\ \A i \in 1..Len(tasks) :
              /\ tasks[i].status = "completed" => tasks'[i].status = "completed"
              /\ tasks[i].status # "pending" => tasks'[i].status # "pending"
              /\ (tasks'[i].status = "completed" /\ tasks[i].status # "completed")
                     => tasks[i].status = "in_progress"]_vars

\* one task completed, another one in progress
C13_Witness ==
    \E i, j \in 1..Len(tasks) :
        /\ tasks[i].status = "completed"
        /\ tasks[j].status = "in_progress"
        /\ current_task = j

\* C14: at most one task has status in_progress, and that task is the one
\* bound to the timer.
C14_OneActive ==
    \A i \in 1..Len(tasks) : tasks[i].status = "in_progress" => current_task = i

\* C15: a completion in which save_task raises still marks the task
\* completed, adds one session and the elapsed minutes, and resets the timer.
C15_SaveFailureHarmless ==
    [][(current_task # 0 /\ current_task' = 0 /\ last_save' = "failed")
       => /\ tasks'[current_task].status = "completed"
          /\ completed_sessions' = completed_sessions + 1
          /\ total_focus_time' = total_focus_time
                 + (TotalDuration(tasks[current_task]) - CurrentRemaining) \div 60
          /\ ~timer_running'
          /\ time_remaining' = 0
          /\ session_start' = <<>>]_vars

\* a session of at least ten minutes was completed on a client that is not
\* connected
C15_Witness ==
    /\ last_save = "failed"
    /\ ~is_connected
    /\ current_task = 0
    /\ completed_sessions = 1
    /\ total_focus_time >= 10

\* progress as display_focus_session computes it in the current state
CurrentProgress == Progress(CurrentRemaining, TotalDuration(tasks[current_task]))

\* C16: the progress fraction is 1 - remaining/total clamped to [0,1]; it is
\* 1 with no division when total is 0.
C16_ProgressClamped ==
    current_task # 0 =>
        LET total == TotalDuration(tasks[current_task])
            p == CurrentProgress
        IN  /\ p.den > 0
            /\ 0 <= p.num /\ p.num <= p.den
            /\ total = 0 => p.num = p.den
            /\ total > 0 =>
                   p.num * total = p.den * Max(0, Min(total, total - CurrentRemaining))

\* a task of estimated_duration 0 is bound to the timer
C16_Witness ==
    /\ current_task # 0
    /\ TotalDuration(tasks[current_task]) = 0
    /\ CurrentProgress = [num |-> 1, den |-> 1]

\* C24: Start or Continue on a task that is not completed, from any timer
\* state, sets current_task to that task, its status to in_progress,
\* time_remaining to estimated_duration*60, session_start to the wall clock
\* and timer_running to True; it is never offered for a completed task.
C24_StartEffect ==
    [][\A i \in 1..Len(tasks) :
           StartTask(i) =>
               /\ tasks[i].status # "completed"
               /\ current_task' = i
               /\ tasks'[i].status = "in_progress"
               /\ time_remaining' = tasks[i].estimated_duration * 60
               /\ session_start' = <<now>>
               /\ timer_running']_vars

\* a task was started at a later time while the session of another task,
\* itself still in progress, was bound to the timer
C24_Witness ==
    \E i, j \in 1..Len(tasks) :
        /\ i # j
        /\ tasks[i].status = "in_progress"
        /\ current_task = j
        /\ timer_running
        /\ now > 0
        /\ session_start = <<now>>
        /\ run_elapsed = 0
        /\ time_remaining = tasks[j].estimated_duration * 60
        /\ time_remaining > 0

\* C26: a Running session that the user leaves alone eventually reaches the
\* expired state under the auto-rerun loop and an advancing wall clock: the
\* run that stops the timer displays a remaining time of 0, timer_running is
\* False, and the auto-rerun branch is no longer taken.
C26_ExpiryNeedsNoAction ==
    /\ (current_task # 0 /\ timer_running)
           ~> (current_task # 0 /\ expired /\ ~timer_running /\ ~AutoRerunActive)
    /\ [][(timer_running /\ ~timer_running') => (CurrentRemaining = 0 /\ expired')]_vars

\* a session of at least 30 minutes has run its whole time and expired
C26_Witness ==
    /\ current_task # 0
    /\ expired
    /\ ~timer_running
    /\ TotalDuration(tasks[current_task]) >= 1800
    /\ run_elapsed >= TotalDuration(tasks[current_task])

\* the number of tasks of the list whose status is completed
CompletedTasks == Cardinality({i \in 1..Len(tasks) : tasks[i].status = "completed"})

C29_SourceNamesEngine ==
    journal_outcome = "created" =>
        /\ engine = "mock" => ai_source_shown = "Mock AI (Demo Mode)"
        /\ ai_source_shown = "Snowflake Cortex AI" => engine = "cortex"

\* the tasks Break it Down can have appended to the list: those of a call of
\* the mock engine, or a list that came back from Cortex
AppendedBy(old, new) ==
    \/ \E c \in AppMockCalls :
           c.uuid = Len(old) + 1 /\ new = old \o ConvertAll(c.result, Len(old) + 1)
    \/ \E p \in CortexLists \cup TextDurationLists :
           ~ConversionRaises(p) /\ Len(new) = Len(old) + Len(p)
              /\ \A k \in 1..Len(p) : new[Len(old) + k].title = p[k].title

\* C30: a successful Break it Down appends the parsed tasks in decomposition
\* order and leaves the existing tasks, the current task and the timer fields
\* unchanged; with blank input the backend is not called and the list is
\* unchanged; when the action ends in 'Error parsing journal' the list is
\* unchanged.
C30_JournalOnlyAppends ==
    [][/\ journal_outcome' = "created" =>
              /\ Len(tasks') >= Len(tasks)
              /\ SubSeq(tasks', 1, Len(tasks)) = tasks
              /\ AppendedBy(tasks, tasks')
              /\ UNCHANGED timerVars
       /\ journal_outcome' = "blank" =>
              /\ UNCHANGED tasks
              /\ engine' = "none"
              /\ ~warned'
       /\ journal_outcome' = "error" => UNCHANGED tasks]_vars

====
